---- MODULE Spec2Model ----
(***************************************************************************)
(* The three Parquet tools of scripts/: the layout optimizer               *)
(* (optimizeParquet.py), the statistics analyzer (analyze_stats.py) and    *)
(* the metadata inspector (checkParquetMetadata.py).                       *)
(*                                                                         *)
(* One run of one tool is one behaviour: Init picks the tool, its command  *)
(* line and the files it finds; the actions are the steps of its main().   *)
(* Strings (file names, string keys, str() of a value) are sequences of    *)
(* code points, compared as Python compares str.  Rows are records         *)
(* [key, id]: key is the value of the 'origin' column, id the position of  *)
(* the row in the input file (it stands for the row's other columns).      *)
(* Key values are never null.  pyarrow is outside the repository: its      *)
(* calls are modelled by their documented results.                         *)
(***************************************************************************)
EXTENDS Integers, Sequences, FiniteSets, TLC

VARIABLES
    tool,           \* which script runs: "optimizer", "analyzer", "inspector"
    pc,             \* position in the script
    argv_ok,        \* the required command-line arguments are present
    fs_kind,        \* what the path argument names: "absent", "file", "dir"
    in_tables,      \* optimizer: base name -> input file of the input directory
    in_meta,        \* analyzer, inspector: base name -> footer of a file under the path
    max_rows,       \* optimizer: args.max_rows
    max_row_groups, \* analyzer: the max_row_groups parameter of analyze_statistics
    parquet_files,  \* optimizer: sorted(input_dir.glob("*.parquet")), as base names
    pf,             \* optimizer: index of the loop variable pf in parquet_files
    table,          \* optimizer: the table of the current optimize_parquet_file call
    chunk_i,        \* optimizer: loop variable i of the chunk loop
    outdir,         \* optimizer: output file name -> row groups on disk
    writes,         \* optimizer: history of write_optimized_parquet calls that returned
    write_errors,   \* optimizer: history of write_optimized_parquet calls that raised
    attempted,      \* optimizer: history of optimize_parquet_file calls
    failed,         \* optimizer: inputs whose call raised into main's except
    run,            \* optimizer: 1 on the first run, 2 on a re-run over the same input
    prev_outdir,    \* optimizer: outdir at the end of the first run
    target,         \* analyzer, inspector: the file handed to the analysis
    report,         \* analyzer, inspector: what the analysis computed
    exit_code       \* process exit status, -1 while running

vars == <<tool, pc, argv_ok, fs_kind, in_tables, in_meta, max_rows, max_row_groups,
          parquet_files,
          pf, table, chunk_i, outdir, writes, write_errors, attempted, failed, run,
          prev_outdir, target, report, exit_code>>

(***************************************************************************)
(* Bounds of the model.                                                    *)
(***************************************************************************)
\* rows of the single input file of a one-file run
MaxRows == 3
\* rows of an input file of a batch run
MaxBatchRows == 2
\* rows of the long input file that is split into more than ten chunks
MaxLongRows == 11
\* largest --max-rows
MaxCap == 3
\* stands for row_group_size=100_000 (optimizeParquet.py:80), scaled down
RowGroupSize == 2
\* row groups of an arbitrary analysed footer
MaxGroups == 3
\* row groups of an analysed footer whose row groups hold one key each
MaxPointGroups == 6
\* a max_row_groups smaller than the default, so that the window cuts
SmallWindow == 2
\* row groups of an inspected footer, and rows of one of them
MaxInspectGroups == 2
MaxInspectRows == 2

(***************************************************************************)
(* Program constants.                                                      *)
(***************************************************************************)
\* analyze_statistics(..., max_row_groups=10)
DefaultMaxRowGroups == 10
\* if skip_percentage > 80
OptimalAbove == 80
\* elif skip_percentage > 50
AcceptableAbove == 50

(***************************************************************************)
(* Code points and strings.                                                *)
(***************************************************************************)
\* ".parquet"
Ext == <<46, 112, 97, 114, 113, 117, 101, 116>>

\* "_"
Underscore == <<95>>

\* Python's str < str: lexicographic by code point, a proper prefix is smaller
RECURSIVE StrLess(_, _)
StrLess(s, t) ==
    IF t = <<>> THEN FALSE
    ELSE IF s = <<>> THEN TRUE
    ELSE IF Head(s) # Head(t) THEN Head(s) < Head(t)
    ELSE StrLess(Tail(s), Tail(t))

\* str(n) of a non-negative int: its decimal digits
RECURSIVE IntToStr(_)
IntToStr(n) ==
    IF n < 10 THEN <<48 + n>>
    ELSE Append(IntToStr(n \div 10), 48 + (n % 10))

(***************************************************************************)
(* Column types and key values.                                            *)
(***************************************************************************)
ColTypes == {"string", "int64"}

\* the key values of each type in ascending order: "a", "ab", "b"; 9, 10, 100
KeySeq(typ) == IF typ = "string" THEN <<(<<97>>), (<<97, 98>>), (<<98>>)>> ELSE <<9, 10, 100>>
Keys(typ) == {KeySeq(typ)[k] : k \in 1..Len(KeySeq(typ))}

\* the column's ordering as Arrow sorts and as Parquet statistics compare:
\* string by bytes (code points), int64 by magnitude
KeyLess(typ, a, b) == IF typ = "string" THEN StrLess(a, b) ELSE a < b
KeyLeq(typ, a, b) == ~KeyLess(typ, b, a)

\* str(stats.min), str(stats.max)
PyStr(typ, v) == IF typ = "string" THEN v ELSE IntToStr(v)

\* the value a statistics field holds when has_min_max is false
NoValue(typ) == IF typ = "string" THEN <<>> ELSE 0

(***************************************************************************)
(* Tables and the pyarrow calls of the optimizer.                          *)
(***************************************************************************)
Min(a, b) == IF a <= b THEN a ELSE b

RowsOf(keys) == [j \in 1..Len(keys) |-> [key |-> keys[j], id |-> j]]

\* a mutant: rows with equal key come out in reverse input order
sort_indices_unstable(typ, rows) ==
    LET n == Len(rows)
        Before(k, j) ==
            \/ KeyLess(typ, rows[k].key, rows[j].key)
            \/ rows[k].key = rows[j].key /\ k > j
    IN  [p \in 1..n |->
            CHOOSE j \in 1..n : Cardinality({k \in 1..n : Before(k, j)}) = p - 1]

\* pa.compute.sort_indices(table, sort_keys=[("origin", "ascending")]), 1-based:
\* Arrow documents the indices as a stable sort, so row k comes before row j iff
\* its key is smaller, or equal and k is the earlier row
sort_indices(typ, rows) ==
    LET n == Len(rows)
        Before(k, j) ==
            \/ KeyLess(typ, rows[k].key, rows[j].key)
            \/ rows[k].key = rows[j].key /\ k < j
    IN  [p \in 1..n |->
            CHOOSE j \in 1..n : Cardinality({k \in 1..n : Before(k, j)}) = p - 1]

\* table.take(sorted_indices)
take(rows, idx) == [k \in 1..Len(idx) |-> rows[idx[k]]]

\* a mutant: the slice ignores its length and runs to the end of the table
slice_to_end(rows, offset, length) == SubSeq(rows, offset + 1, Len(rows))

\* table.slice(offset, length)
slice(rows, offset, length) == SubSeq(rows, offset + 1, offset + length)

\* statistics of the key column over the rows of one row group
StatMin(typ, rows) ==
    CHOOSE v \in {rows[j].key : j \in 1..Len(rows)} :
        \A j \in 1..Len(rows) : KeyLeq(typ, v, rows[j].key)

StatMax(typ, rows) ==
    CHOOSE v \in {rows[j].key : j \in 1..Len(rows)} :
        \A j \in 1..Len(rows) : KeyLeq(typ, rows[j].key, v)

RowGroup(typ, rows) ==
    [rows |-> rows, num_rows |-> Len(rows), is_stats_set |-> Len(rows) > 0,
     min |-> IF Len(rows) > 0 THEN StatMin(typ, rows) ELSE NoValue(typ),
     max |-> IF Len(rows) > 0 THEN StatMax(typ, rows) ELSE NoValue(typ)]

\* pq.write_table(table, ..., write_statistics=True, row_group_size=...): row groups
\* of at most row_group_size rows, in order; an empty table gets one row group of
\* 0 rows, which carries no statistics
write_table(typ, rows) ==
    IF Len(rows) = 0 THEN <<RowGroup(typ, <<>>)>>
    ELSE [g \in 1..((Len(rows) + RowGroupSize - 1) \div RowGroupSize) |->
            RowGroup(typ, slice(rows, (g - 1) * RowGroupSize,
                                Min(RowGroupSize, Len(rows) - (g - 1) * RowGroupSize)))]

\* output_dir / f"{base_name}_{i}.parquet"
ChunkName(base_name, i) == base_name \o Underscore \o IntToStr(i) \o Ext

\* output_dir / f"{base_name}.parquet"
SingleName(base_name) == base_name \o Ext

\* sorted(input_dir.glob("*.parquet")): paths of one directory order as their
\* file names do
RECURSIVE SortedNames(_)
SortedNames(S) ==
    IF S = {} THEN <<>>
    ELSE LET m == CHOOSE x \in S : \A y \in S \ {x} : StrLess(x \o Ext, y \o Ext)
         IN  <<m>> \o SortedNames(S \ {m})

\* a mutant: the division rounds down and the last, partial chunk is lost
NumChunksFloor(n, cap) == n \div cap

\* (num_rows + max_rows_per_file - 1) // max_rows_per_file
NumChunks(n, cap) == (n + cap - 1) \div cap

(***************************************************************************)
(* The optimizer's inputs.                                                 *)
(***************************************************************************)
EmptyFn == <<>>

\* base names of the files of an input directory: "a", "a_0", "b"
Stems == {<<97>>, <<97, 95, 48>>, <<98>>}

OkFile(typ, rows) == [kind |-> "ok", colType |-> typ, rows |-> rows]
\* a file pq.read_table cannot read
UnreadableFile == [kind |-> "unreadable", colType |-> "string", rows |-> <<>>]
\* a file without the 'origin' column, which sort_indices rejects
NoKeyFile == [kind |-> "no_key", colType |-> "string", rows |-> <<>>]

\* every table of at most n rows
Tables(typ, n) == {RowsOf(ks) : ks \in UNION {[1..m -> Keys(typ)] : m \in 0..n}}

\* one table per row count: keys descending, cycling through the key values
CanonTable(typ, n) ==
    RowsOf([j \in 1..n |-> KeySeq(typ)[((n - j) % Len(KeySeq(typ))) + 1]])

OneFileDirs(typ) == {[s \in {<<97>>} |-> OkFile(typ, t)] : t \in Tables(typ, MaxRows)}

LongDirs(typ) ==
    {[s \in {<<97>>} |-> OkFile(typ, CanonTable(typ, n))] : n \in (MaxRows + 1)..MaxLongRows}

BatchFiles ==
    {UnreadableFile, NoKeyFile} \cup {OkFile("string", CanonTable("string", n)) : n \in 0..MaxBatchRows}

BatchDirs == UNION {[D -> BatchFiles] : D \in SUBSET Stems}

InputDirs(typ) ==
    OneFileDirs(typ) \cup LongDirs(typ) \cup (IF typ = "string" THEN BatchDirs ELSE {})

NoReport == [kind |-> "none"]

InitOptimizer ==
    /\ tool = "optimizer"
    /\ pc = "start"
    /\ \/ argv_ok = FALSE /\ fs_kind = "absent" /\ in_tables = EmptyFn /\ max_rows = 1
       \/ /\ argv_ok = TRUE /\ fs_kind \in {"absent", "file"} /\ in_tables = EmptyFn
          /\ max_rows = 1
       \/ /\ argv_ok = TRUE
          /\ fs_kind = "dir"
          /\ \E typ \in ColTypes : in_tables \in InputDirs(typ)
          /\ max_rows \in 0..MaxCap
    /\ in_meta = EmptyFn
    /\ max_row_groups = DefaultMaxRowGroups
    /\ parquet_files = <<>>
    /\ pf = 0
    /\ table = <<>>
    /\ chunk_i = 0
    /\ outdir = EmptyFn
    /\ writes = <<>>
    /\ write_errors = {}
    /\ attempted = <<>>
    /\ failed = {}
    /\ run = 1
    /\ prev_outdir = EmptyFn
    /\ target = <<>>
    /\ report = NoReport
    /\ exit_code = -1

(***************************************************************************)
(* optimizeParquet.py                                                      *)
(***************************************************************************)
inputs == <<tool, argv_ok, fs_kind, in_tables, in_meta, max_rows, max_row_groups>>
analysis == <<target, report>>

\* the input file the loop variable pf names
CurFile == in_tables[parquet_files[pf]]
base_name == parquet_files[pf]
num_rows == Len(table)

\* main, up to the glob: argparse exits with 2 on a missing argument
optimize_main ==
    /\ tool = "optimizer" /\ pc = "start"
    /\ \/ ~argv_ok /\ pc' = "exit" /\ exit_code' = 2 /\ UNCHANGED <<parquet_files, pf>>
       \/ /\ argv_ok /\ fs_kind = "absent"
          /\ pc' = "exit" /\ exit_code' = 1 /\ UNCHANGED <<parquet_files, pf>>
       \/ /\ argv_ok /\ fs_kind # "absent"
          /\ parquet_files' = (IF fs_kind = "dir" THEN SortedNames(DOMAIN in_tables) ELSE <<>>)
          /\ pf' = 1
          /\ pc' = "loop"
          /\ UNCHANGED exit_code
    /\ UNCHANGED <<inputs, analysis, table, chunk_i, outdir, writes, write_errors, attempted, failed,
                   run, prev_outdir>>

\* for pf in parquet_files: ... print("Done!")
main_loop ==
    /\ tool = "optimizer" /\ pc = "loop"
    /\ \/ /\ pf > Len(parquet_files)
          /\ pc' = "done" /\ exit_code' = 0 /\ UNCHANGED attempted
       \/ /\ pf <= Len(parquet_files)
          /\ pc' = "read" /\ attempted' = Append(attempted, parquet_files[pf])
          /\ UNCHANGED exit_code
    /\ UNCHANGED <<inputs, analysis, parquet_files, pf, table, chunk_i, outdir, writes, write_errors,
                   failed, run, prev_outdir>>

\* a mutant: no try/except around the call, the exception ends the process
RaiseAbort ==
    /\ failed' = failed \cup {parquet_files[pf]}
    /\ pf' = pf
    /\ pc' = "exit"
    /\ table' = <<>>
    /\ chunk_i' = 0

\* an exception leaves optimize_parquet_file; main's except prints it and the loop
\* goes on with the next file
Raise ==
    /\ failed' = failed \cup {parquet_files[pf]}
    /\ pf' = pf + 1
    /\ pc' = "loop"
    /\ table' = <<>>
    /\ chunk_i' = 0

\* optimize_parquet_file returns
Return ==
    /\ pf' = pf + 1
    /\ pc' = "loop"
    /\ table' = <<>>
    /\ chunk_i' = 0
    /\ UNCHANGED failed

\* table = pq.read_table(input_file)
read_table ==
    /\ tool = "optimizer" /\ pc = "read"
    /\ \/ CurFile.kind = "unreadable" /\ Raise
       \/ /\ CurFile.kind # "unreadable"
          /\ table' = CurFile.rows /\ pc' = "sort"
          /\ UNCHANGED <<pf, chunk_i, failed>>
    /\ UNCHANGED <<inputs, analysis, parquet_files, outdir, writes, write_errors, attempted, run,
                   prev_outdir, exit_code>>

\* sorted_indices = sort_indices(...); table = table.take(sorted_indices)
sort_table ==
    /\ tool = "optimizer" /\ pc = "sort"
    /\ \/ CurFile.kind = "no_key" /\ Raise
       \/ /\ CurFile.kind # "no_key"
          /\ table' = take(table, sort_indices(CurFile.colType, table))
          /\ pc' = "split"
          /\ UNCHANGED <<pf, chunk_i, failed>>
    /\ UNCHANGED <<inputs, analysis, parquet_files, outdir, writes, write_errors, attempted, run,
                   prev_outdir, exit_code>>

\* if num_rows > max_rows_per_file: num_chunks = ... else: ...
split ==
    /\ tool = "optimizer" /\ pc = "split"
    /\ \/ num_rows > max_rows /\ max_rows = 0 /\ Raise
       \/ /\ num_rows > max_rows /\ max_rows # 0
          /\ pc' = "chunks" /\ chunk_i' = 0 /\ UNCHANGED <<pf, table, failed>>
       \/ /\ num_rows <= max_rows
          /\ pc' = "single" /\ UNCHANGED <<pf, table, chunk_i, failed>>
    /\ UNCHANGED <<inputs, analysis, parquet_files, outdir, writes, write_errors, attempted, run,
                   prev_outdir, exit_code>>

\* write_optimized_parquet(t, output_file) returns: the file is on disk
WriteOk(name, rows, split_file) ==
    /\ outdir' = [n \in DOMAIN outdir \cup {name} |->
                    IF n = name
                    THEN [colType |-> CurFile.colType,
                          groups |-> write_table(CurFile.colType, rows)]
                    ELSE outdir[n]]
    /\ writes' = Append(writes, [input |-> base_name, name |-> name, rows |-> rows,
                                 split |-> split_file])
    /\ UNCHANGED write_errors

\* pq.write_table raises: the old file at the path, if any, is kept or lost
WriteFails(name) ==
    /\ outdir' \in {outdir, [n \in DOMAIN outdir \ {name} |-> outdir[n]]}
    /\ write_errors' = write_errors \cup {[input |-> base_name, name |-> name]}
    /\ UNCHANGED writes

\* a mutant: the chunk loop catches a failed write and goes on with the next chunk
write_chunk_isolated ==
    /\ tool = "optimizer" /\ pc = "chunks"
    /\ \/ /\ chunk_i >= NumChunks(num_rows, max_rows)
          /\ Return /\ UNCHANGED <<outdir, writes, write_errors>>
       \/ /\ chunk_i < NumChunks(num_rows, max_rows)
          /\ LET start == chunk_i * max_rows
                 end == Min((chunk_i + 1) * max_rows, num_rows)
             IN  WriteOk(ChunkName(base_name, chunk_i), slice(table, start, end - start), TRUE)
          /\ chunk_i' = chunk_i + 1
          /\ UNCHANGED <<pc, pf, table, failed>>
       \/ /\ chunk_i < NumChunks(num_rows, max_rows)
          /\ WriteFails(ChunkName(base_name, chunk_i))
          /\ chunk_i' = chunk_i + 1
          /\ UNCHANGED <<pc, pf, table, failed>>
    /\ UNCHANGED <<inputs, analysis, parquet_files, attempted, run, prev_outdir, exit_code>>

\* for i in range(num_chunks): ... write_optimized_parquet(chunk, output_file)
write_chunk ==
    /\ tool = "optimizer" /\ pc = "chunks"
    /\ \/ /\ chunk_i >= NumChunks(num_rows, max_rows)
          /\ Return /\ UNCHANGED <<outdir, writes, write_errors>>
       \/ /\ chunk_i < NumChunks(num_rows, max_rows)
          /\ LET start == chunk_i * max_rows
                 end == Min((chunk_i + 1) * max_rows, num_rows)
             IN  WriteOk(ChunkName(base_name, chunk_i), slice(table, start, end - start), TRUE)
          /\ chunk_i' = chunk_i + 1
          /\ UNCHANGED <<pc, pf, table, failed>>
       \/ /\ chunk_i < NumChunks(num_rows, max_rows)
          /\ WriteFails(ChunkName(base_name, chunk_i))
          /\ Raise
    /\ UNCHANGED <<inputs, analysis, parquet_files, attempted, run, prev_outdir, exit_code>>

\* else: write_optimized_parquet(table, output_dir / f"{base_name}.parquet")
write_single ==
    /\ tool = "optimizer" /\ pc = "single"
    /\ \/ WriteOk(SingleName(base_name), table, FALSE) /\ Return
       \/ WriteFails(SingleName(base_name)) /\ Raise
    /\ UNCHANGED <<inputs, analysis, parquet_files, attempted, run, prev_outdir, exit_code>>

\* the same command is run again over the same input, after a run without errors
rerun ==
    /\ tool = "optimizer" /\ pc = "done" /\ run = 1 /\ failed = {}
    /\ run' = 2
    /\ prev_outdir' = outdir
    /\ pc' = "loop"
    /\ pf' = 1
    /\ writes' = <<>>
    /\ write_errors' = {}
    /\ attempted' = <<>>
    /\ exit_code' = -1
    /\ UNCHANGED <<inputs, analysis, parquet_files, table, chunk_i, outdir, failed>>

(***************************************************************************)
(* analyze_stats.py                                                        *)
(***************************************************************************)
\* the loop over the first num_to_show row groups: stats_list, prev_max and
\* overlaps after n of them.  min_val and max_val are str() of the statistics and
\* are compared as str; stats_list keeps the values themselves
RECURSIVE scan_row_groups(_, _)
scan_row_groups(meta, n) ==
    IF n = 0
    THEN [stats_list |-> <<>>, has_prev |-> FALSE, prev_max |-> <<>>, overlaps |-> 0]
    ELSE LET s == scan_row_groups(meta, n - 1)
             col == meta.groups[n]
             min_val == PyStr(meta.colType, col.min)
             max_val == PyStr(meta.colType, col.max)
         IN  IF col.is_stats_set
             THEN [stats_list |-> Append(s.stats_list,
                                         [rg |-> n - 1, min |-> col.min, max |-> col.max,
                                          rows |-> col.num_rows]),
                   has_prev |-> TRUE,
                   prev_max |-> max_val,
                   overlaps |-> IF s.has_prev /\ StrLess(min_val, s.prev_max)
                                THEN s.overlaps + 1 ELSE s.overlaps]
             ELSE s

\* a mutant: the upper end of the range is excluded
CoversExclusiveMax(typ, stat, test_value) ==
    KeyLeq(typ, stat.min, test_value) /\ KeyLess(typ, test_value, stat.max)

\* if stat['min'] <= test_value <= stat['max']
Covers(typ, stat, test_value) ==
    KeyLeq(typ, stat.min, test_value) /\ KeyLeq(typ, test_value, stat.max)

\* a mutant: the first threshold is compared with >=
ClassifyOptimalAtThreshold(would_skip, total_rg) ==
    IF would_skip * 100 >= OptimalAbove * total_rg THEN "optimal"
    ELSE IF would_skip * 100 > AcceptableAbove * total_rg THEN "acceptable"
    ELSE "poor"

\* skip_percentage = (would_skip / total_rg) * 100, then > 80, > 50, else
Classify(would_skip, total_rg) ==
    IF would_skip * 100 > OptimalAbove * total_rg THEN "optimal"
    ELSE IF would_skip * 100 > AcceptableAbove * total_rg THEN "acceptable"
    ELSE "poor"

AnalysisFailed(outcome) ==
    [kind |-> "analysis", outcome |-> outcome]

\* analyze_statistics(file_path, column_name, max_row_groups) on the footer meta
analyze_statistics(exists, meta, window) ==
    IF ~exists THEN AnalysisFailed("not_found")
    ELSE IF ~meta.readable THEN AnalysisFailed("error")
    ELSE IF ~meta.has_column THEN AnalysisFailed("no_column")
    ELSE
    LET num_to_show == Min(window, Len(meta.groups))
        s == scan_row_groups(meta, num_to_show)
        stats_list == s.stats_list
        simulated == Len(stats_list) > 0
        mid_idx == Len(stats_list) \div 2
        test_value == IF simulated THEN stats_list[mid_idx + 1].min
                      ELSE NoValue(meta.colType)
        would_download ==
            Cardinality({k \in 1..Len(stats_list) :
                            Covers(meta.colType, stats_list[k], test_value)})
        would_skip == Len(stats_list) - would_download
    IN  [kind |-> "analysis",
         outcome |-> "ok",
         colType |-> meta.colType,
         num_to_show |-> num_to_show,
         stats_list |-> stats_list,
         overlaps |-> s.overlaps,
         compared |-> Len(stats_list) > 1,
         total_comparisons |-> Len(stats_list) - 1,
         simulated |-> simulated,
         test_value |-> test_value,
         would_download |-> IF simulated THEN would_download ELSE 0,
         would_skip |-> IF simulated THEN would_skip ELSE 0,
         total_rg |-> Len(stats_list),
         class |-> IF simulated THEN Classify(would_skip, Len(stats_list)) ELSE "none"]

\* pq.read_metadata of a file the optimizer wrote: the footer, without the rows
ReadMetadata(file) ==
    [readable |-> TRUE, has_column |-> TRUE, colType |-> file.colType,
     groups |-> [g \in 1..Len(file.groups) |->
                    [num_rows |-> file.groups[g].num_rows,
                     is_stats_set |-> file.groups[g].is_stats_set,
                     min |-> file.groups[g].min,
                     max |-> file.groups[g].max]]]

\* the analyzer is run on one file of the optimizer's output directory
audit ==
    /\ tool = "optimizer" /\ pc = "done"
    /\ \E name \in DOMAIN outdir :
          /\ target' = name
          /\ report' = analyze_statistics(TRUE, ReadMetadata(outdir[name]), max_row_groups)
    /\ pc' = "audited"
    /\ UNCHANGED <<inputs, parquet_files, pf, table, chunk_i, outdir, writes, write_errors, attempted,
                   failed, run, prev_outdir, exit_code>>

optimizer_state == <<parquet_files, pf, table, chunk_i, outdir, writes, write_errors,
                     attempted, failed, run, prev_outdir>>

\* the path no file is at
NoPath == <<>>

\* main of analyze_stats.py and of checkParquetMetadata.py, up to the call: both
\* exit with 1 without an argument or on a directory without .parquet files, and
\* take the first file list(glob) gives otherwise
tool_main ==
    /\ tool \in {"analyzer", "inspector"} /\ pc = "start"
    /\ \/ /\ ~argv_ok
          /\ pc' = "exit" /\ exit_code' = 1 /\ UNCHANGED target
       \/ /\ argv_ok /\ fs_kind = "dir" /\ DOMAIN in_meta = {}
          /\ pc' = "exit" /\ exit_code' = 1 /\ UNCHANGED target
       \/ /\ argv_ok /\ fs_kind = "dir"
          /\ \E first \in DOMAIN in_meta : target' = first
          /\ pc' = "call" /\ UNCHANGED exit_code
       \/ /\ argv_ok /\ fs_kind = "file"
          /\ target' = (CHOOSE f \in DOMAIN in_meta : TRUE)
          /\ pc' = "call" /\ UNCHANGED exit_code
       \/ /\ argv_ok /\ fs_kind = "absent"
          /\ target' = NoPath
          /\ pc' = "call" /\ UNCHANGED exit_code
    /\ UNCHANGED <<inputs, optimizer_state, report>>

\* analyze_statistics(...) returns and main ends
analyze_call ==
    /\ tool = "analyzer" /\ pc = "call"
    /\ report' = analyze_statistics(target \in DOMAIN in_meta,
                                    IF target \in DOMAIN in_meta THEN in_meta[target]
                                    ELSE EmptyFn,
                                    max_row_groups)
    /\ pc' = "done"
    /\ exit_code' = 0
    /\ UNCHANGED <<inputs, optimizer_state, target>>

(***************************************************************************)
(* checkParquetMetadata.py                                                 *)
(***************************************************************************)
RECURSIVE SumRows(_, _)
SumRows(groups, n) == IF n = 0 THEN 0 ELSE SumRows(groups, n - 1) + groups[n].num_rows

InspectionFailed(printed, groups) ==
    [kind |-> "inspection", returned |-> FALSE, printed |-> printed,
     num_rows |-> SumRows(groups, Len(groups)), num_row_groups |-> Len(groups),
     has_statistics |-> FALSE]

\* check_parquet_file(file_path): the counts are printed from the footer; the
\* compression ratio of row group 0 divides by its total_byte_size and the average
\* row group size divides by the number of row groups, and a ZeroDivisionError is
\* caught by the except, which returns False
check_parquet_file(exists, meta) ==
    IF ~exists THEN
        [kind |-> "inspection", returned |-> FALSE, error |-> FALSE] @@
        InspectionFailed(FALSE, <<>>)
    ELSE IF ~meta.readable THEN
        [kind |-> "inspection", returned |-> FALSE, error |-> TRUE] @@
        InspectionFailed(FALSE, <<>>)
    ELSE IF Len(meta.groups) > 0 /\ meta.groups[1].total_byte_size = 0 THEN
        [kind |-> "inspection", returned |-> FALSE, error |-> TRUE] @@
        InspectionFailed(TRUE, meta.groups)
    ELSE IF Len(meta.groups) = 0 THEN
        [kind |-> "inspection", returned |-> FALSE, error |-> TRUE] @@
        InspectionFailed(TRUE, meta.groups)
    ELSE
        [kind |-> "inspection", returned |-> TRUE, error |-> FALSE, printed |-> TRUE,
         num_rows |-> SumRows(meta.groups, Len(meta.groups)),
         num_row_groups |-> Len(meta.groups),
         has_statistics |-> meta.groups[1].is_stats_set]

\* check_parquet_file(...) returns and main ends; main drops the result
check_call ==
    /\ tool = "inspector" /\ pc = "call"
    /\ report' = check_parquet_file(target \in DOMAIN in_meta,
                                    IF target \in DOMAIN in_meta THEN in_meta[target]
                                    ELSE EmptyFn)
    /\ pc' = "done"
    /\ exit_code' = 0
    /\ UNCHANGED <<inputs, optimizer_state, target>>

(***************************************************************************)
(* The footers the analyzer and the inspector are given.                   *)
(***************************************************************************)
StatGroups(typ) ==
    {[num_rows |-> 1, is_stats_set |-> TRUE, min |-> a, max |-> b] :
        <<a, b>> \in {p \in Keys(typ) \X Keys(typ) : KeyLeq(typ, p[1], p[2])}}

NoStatGroup(typ) ==
    [num_rows |-> 1, is_stats_set |-> FALSE, min |-> NoValue(typ), max |-> NoValue(typ)]

\* row groups that hold one key each: the first or the last key value
PointGroups(typ) ==
    {[num_rows |-> 1, is_stats_set |-> TRUE, min |-> k, max |-> k] :
        k \in {KeySeq(typ)[1], KeySeq(typ)[Len(KeySeq(typ))]}}

Footer(typ, groups) ==
    [readable |-> TRUE, has_column |-> TRUE, colType |-> typ, groups |-> groups]
\* a file pq.read_metadata cannot read
UnreadableFooter ==
    [readable |-> FALSE, has_column |-> FALSE, colType |-> "string", groups |-> <<>>]
\* a file without the analysed column
NoColumnFooter ==
    [readable |-> TRUE, has_column |-> FALSE, colType |-> "string", groups |-> <<>>]

AnalyzedFooters(typ) ==
    {Footer(typ, gs) :
        gs \in UNION {[1..m -> StatGroups(typ) \cup {NoStatGroup(typ)}] : m \in 0..MaxGroups}}
    \cup (IF typ = "string"
          THEN {Footer(typ, gs) :
                  gs \in UNION {[1..m -> PointGroups(typ)] :
                                  m \in (MaxGroups + 1)..MaxPointGroups}}
               \cup {UnreadableFooter, NoColumnFooter}
          ELSE {})

\* a row group of 0 rows has no statistics; whether it has bytes is the writer's
InspectedGroups ==
    {[num_rows |-> n, total_byte_size |-> b, total_compressed_size |-> b \div 2,
      is_stats_set |-> st] :
        <<n, b, st>> \in {q \in (0..MaxInspectRows) \X (0..8 * MaxInspectRows) \X BOOLEAN :
                            /\ q[1] > 0 => q[2] = 8 * q[1]
                            /\ q[1] = 0 => q[2] \in {0, 8} /\ ~q[3]}}

InspectedFooters ==
    {[readable |-> TRUE, groups |-> gs] :
        gs \in UNION {[1..m -> InspectedGroups] : m \in 0..MaxInspectGroups}}
    \cup {[readable |-> FALSE, groups |-> <<>>]}

\* file names of a directory given to the analyzer or the inspector: "a", "b"
DirStems == {<<97>>, <<98>>}

InitTool(t, footers, dirfooters) ==
    /\ tool = t
    /\ pc = "start"
    /\ \/ argv_ok = FALSE /\ fs_kind = "absent" /\ in_meta = EmptyFn
       \/ argv_ok = TRUE /\ fs_kind = "absent" /\ in_meta = EmptyFn
       \/ argv_ok = TRUE /\ fs_kind = "file" /\ in_meta \in [{<<97>>} -> footers]
       \/ /\ argv_ok = TRUE /\ fs_kind = "dir"
          /\ in_meta \in UNION {[D -> dirfooters] : D \in SUBSET DirStems}
    /\ in_tables = EmptyFn
    /\ max_rows = 1
    /\ parquet_files = <<>>
    /\ pf = 0
    /\ table = <<>>
    /\ chunk_i = 0
    /\ outdir = EmptyFn
    /\ writes = <<>>
    /\ write_errors = {}
    /\ attempted = <<>>
    /\ failed = {}
    /\ run = 1
    /\ prev_outdir = EmptyFn
    /\ target = <<>>
    /\ report = NoReport
    /\ exit_code = -1

InitAnalyzer ==
    /\ max_row_groups \in {SmallWindow, DefaultMaxRowGroups}
    /\ \E typ \in ColTypes :
          InitTool("analyzer", AnalyzedFooters(typ),
                   {Footer(typ, <<>>), Footer(typ, <<NoStatGroup(typ)>>)})

InitInspector ==
    /\ max_row_groups = DefaultMaxRowGroups
    /\ InitTool("inspector", InspectedFooters,
                {[readable |-> TRUE, groups |-> <<>>], [readable |-> FALSE, groups |-> <<>>]})

OptimizerNext ==
    \/ optimize_main
    \/ main_loop
    \/ read_table
    \/ sort_table
    \/ split
    \/ write_chunk
    \/ write_single
    \/ rerun
    \/ audit

Init == InitOptimizer \/ InitAnalyzer \/ InitInspector
Next == OptimizerNext \/ tool_main \/ analyze_call \/ check_call
Spec == Init /\ [][Next]_vars

(***************************************************************************)
(* Notions the claims are stated in.                                       *)
(***************************************************************************)
\* the write_optimized_parquet calls of this run that wrote the path name
WritesTo(name) == {k \in 1..Len(writes) : writes[k].name = name}

\* the file at name is the whole sorted table of an input that was not split
UnsplitOutput(name) ==
    /\ WritesTo(name) # {}
    /\ LET last == CHOOSE k \in WritesTo(name) : \A j \in WritesTo(name) : j <= k
       IN  ~writes[last].split
    /\ name \in DOMAIN outdir

Audited == tool = "optimizer" /\ pc = "audited" /\ report.outcome = "ok"

(***************************************************************************)
(* C1.  Sortedness guarantee: when the optimizer wrote an input that does  *)
(* not exceed the row cap as one output file, analyze_statistics run on    *)
(* that file counts 0 overlaps.                                            *)
(***************************************************************************)
C1_SortednessGuarantee ==
    (Audited /\ UnsplitOutput(target)) => report.overlaps = 0

\* the same for a key column of strings, the type the scripts are written for
C1_SortednessOfStringKeys ==
    (Audited /\ UnsplitOutput(target) /\ report.colType = "string") => report.overlaps = 0

C1_AuditedTwoRowGroups ==
    Audited /\ UnsplitOutput(target) /\ Len(report.stats_list) >= 2

(***************************************************************************)
(* C2.  Chunk splitting conserves rows: for an input with more rows than   *)
(* a positive cap, the rows of its output files <basename>_0,              *)
(* <basename>_1, ..., concatenated in ascending chunk index, are the       *)
(* sorted rows of the input: every row once, keys ascending, and the row   *)
(* counts add up to the input's.                                           *)
(***************************************************************************)
\* optimize_parquet_file returned for this input without raising
Completed(stem) ==
    /\ tool = "optimizer"
    /\ stem \notin failed
    /\ \E k \in 1..Len(attempted) :
          attempted[k] = stem /\ (k < pf \/ pc \in {"done", "audited"})

\* the writes of one input, in the order they were made
RECURSIVE InputWrites(_, _)
InputWrites(stem, n) ==
    IF n = 0 THEN <<>>
    ELSE IF writes[n].input = stem THEN Append(InputWrites(stem, n - 1), writes[n])
    ELSE InputWrites(stem, n - 1)

\* write records ordered by file name, as a directory listing sorts them
RECURSIVE ByFileName(_)
ByFileName(S) ==
    IF S = {} THEN <<>>
    ELSE LET m == CHOOSE w \in S : \A v \in S : ~StrLess(v.name, w.name)
         IN  <<m>> \o ByFileName(S \ {m})

RECURSIVE ConcatRows(_)
ConcatRows(ws) == IF ws = <<>> THEN <<>> ELSE Head(ws).rows \o ConcatRows(Tail(ws))

\* out holds every row of rows exactly once, in ascending key order
SortedRowsOf(typ, out, rows) ==
    /\ Len(out) = Len(rows)
    /\ {out[k] : k \in 1..Len(out)} = {rows[k] : k \in 1..Len(rows)}
    /\ \A k \in 1..Len(out) - 1 : KeyLeq(typ, out[k].key, out[k + 1].key)

SplitInput(stem) ==
    /\ stem \in DOMAIN in_tables
    /\ Completed(stem)
    /\ max_rows > 0
    /\ Len(in_tables[stem].rows) > max_rows

C2_ChunksInIndexOrder ==
    \A stem \in DOMAIN in_tables :
        SplitInput(stem) =>
            LET ws == InputWrites(stem, Len(writes))
                f == in_tables[stem]
            IN  /\ Len(ws) * max_rows >= Len(f.rows)
                /\ (Len(ws) - 1) * max_rows < Len(f.rows)
                /\ \A k \in 1..Len(ws) : ws[k].name = ChunkName(stem, k - 1)
                /\ SortedRowsOf(f.colType, ConcatRows(ws), f.rows)

\* the claim as stated: the files are taken in the order of their names
C2_ChunksInFileNameOrder ==
    \A stem \in DOMAIN in_tables :
        SplitInput(stem) =>
            LET ws == InputWrites(stem, Len(writes))
                f == in_tables[stem]
            IN  SortedRowsOf(f.colType,
                             ConcatRows(ByFileName({ws[k] : k \in 1..Len(ws)})), f.rows)

C2_SplitIntoMoreThanTenChunks ==
    \E stem \in DOMAIN in_tables :
        SplitInput(stem) /\ Len(InputWrites(stem, Len(writes))) > 10

(***************************************************************************)
(* The analysed footer and its examined row groups.                        *)
(***************************************************************************)
Analysed == report.kind = "analysis" /\ report.outcome = "ok"

AnalysedFooter ==
    IF tool = "analyzer" THEN in_meta[target] ELSE ReadMetadata(outdir[target])

\* the row groups the analysis looked at, in physical order
Examined == SubSeq(AnalysedFooter.groups, 1, report.num_to_show)

(***************************************************************************)
(* C3.  Fetch simulation: for the lookup value v, an examined row group    *)
(* counts as fetched iff it has statistics with min <= v <= max or has no  *)
(* statistics; one without statistics is fetched, never skipped, so        *)
(* fetched + skipped is the number of examined row groups.                 *)
(***************************************************************************)
MustFetch(typ, g, v) ==
    ~g.is_stats_set \/ (KeyLeq(typ, g.min, v) /\ KeyLeq(typ, v, g.max))

C3_FetchSimulation ==
    (Analysed /\ report.simulated) =>
        /\ report.would_download =
             Cardinality({k \in 1..Len(Examined) :
                            MustFetch(report.colType, Examined[k], report.test_value)})
        /\ report.would_download + report.would_skip = Len(Examined)

\* the same over footers whose examined row groups all have statistics
C3_FetchSimulationWithStatistics ==
    (Analysed /\ report.simulated
       /\ \A k \in 1..Len(Examined) : Examined[k].is_stats_set) =>
        /\ report.would_download =
             Cardinality({k \in 1..Len(Examined) :
                            MustFetch(report.colType, Examined[k], report.test_value)})
        /\ report.would_download + report.would_skip = Len(Examined)

(***************************************************************************)
(* C6.  Overlap detection: the overlap count is the number of physically   *)
(* adjacent examined row groups (i, i+1) with max of i above min of i+1,   *)
(* and the ratio divides it by the number of examined row groups minus 1,  *)
(* also when some row groups have no statistics.                           *)
(***************************************************************************)
AdjacentOverlaps(typ, gs) ==
    Cardinality({i \in 1..Len(gs) - 1 :
                    /\ gs[i].is_stats_set
                    /\ gs[i + 1].is_stats_set
                    /\ KeyLess(typ, gs[i + 1].min, gs[i].max)})

C6_OverlapDetection ==
    Analysed =>
        /\ report.overlaps = AdjacentOverlaps(report.colType, Examined)
        /\ report.compared => report.total_comparisons = Len(Examined) - 1

\* the same for a string column whose examined row groups all have statistics
C6_OverlapDetectionOfStringStatistics ==
    (Analysed /\ report.colType = "string"
       /\ \A k \in 1..Len(Examined) : Examined[k].is_stats_set) =>
        /\ report.overlaps = AdjacentOverlaps(report.colType, Examined)
        /\ report.compared => report.total_comparisons = Len(Examined) - 1

(***************************************************************************)
(* C7.  Classification policy.  As claimed: skip ratio above 80% is        *)
(* "optimal", from 50% to 80% inclusive "acceptable", below 50% "poor".    *)
(* As the code has it: above 80% "optimal", above 50% and up to 80%        *)
(* "acceptable", 50% or below "poor"; one class for every count.           *)
(***************************************************************************)
C7_ClassificationPolicy ==
    (Analysed /\ report.simulated) =>
        LET skip == report.would_skip * 100
            all == report.total_rg
        IN  /\ skip > 80 * all => report.class = "optimal"
            /\ (50 * all <= skip /\ skip <= 80 * all) => report.class = "acceptable"
            /\ skip < 50 * all => report.class = "poor"

C7_ClassificationStrictAtHalf ==
    (Analysed /\ report.simulated) =>
        LET skip == report.would_skip * 100
            all == report.total_rg
        IN  /\ report.class \in {"optimal", "acceptable", "poor"}
            /\ report.class = "optimal" <=> skip > 80 * all
            /\ report.class = "acceptable" <=> (50 * all < skip /\ skip <= 80 * all)
            /\ report.class = "poor" <=> skip <= 50 * all

C7_ExactlyHalfSkipped ==
    /\ tool = "analyzer" /\ Analysed /\ report.simulated
    /\ report.would_skip * 2 = report.total_rg
    /\ report.class = "poor"

C7_ExactlyFourFifthsSkipped ==
    /\ tool = "analyzer" /\ Analysed /\ report.simulated
    /\ report.would_skip * 5 = report.total_rg * 4
    /\ report.class = "acceptable"

C7_MoreThanFourFifthsSkipped ==
    /\ tool = "analyzer" /\ Analysed /\ report.class = "optimal"

(***************************************************************************)
(* The output an input is due.                                             *)
(***************************************************************************)
\* names of the output files of an input with n rows, in the order written
ExpectedNames(stem, n) ==
    IF n > max_rows
    THEN LET m == CHOOSE c \in 1..n : c * max_rows >= n /\ (c - 1) * max_rows < n
         IN  [k \in 1..m |-> ChunkName(stem, k - 1)]
    ELSE <<SingleName(stem)>>

\* the writes of the input are all its output files, holding its sorted rows
OutputComplete(stem) ==
    LET ws == InputWrites(stem, Len(writes))
        f == in_tables[stem]
        names == ExpectedNames(stem, Len(f.rows))
    IN  /\ Len(ws) = Len(names)
        /\ \A k \in 1..Len(ws) : ws[k].name = names[k]
        /\ SortedRowsOf(f.colType, ConcatRows(ws), f.rows)

Ended == tool = "optimizer" /\ pc = "done"

(***************************************************************************)
(* C4.  Per-input error isolation: whatever inputs fail, main attempts     *)
(* every input file exactly once, in sorted order, writes the complete     *)
(* output of every input that does not fail, and reaches its end: no       *)
(* failure of an input ends the process.                                   *)
(***************************************************************************)
C4_ErrorIsolation ==
    /\ Ended =>
         /\ attempted = parquet_files
         /\ {attempted[k] : k \in 1..Len(attempted)} = DOMAIN in_tables
         /\ \A k \in 1..Len(attempted) - 1 :
               StrLess(attempted[k] \o Ext, attempted[k + 1] \o Ext)
         /\ \A stem \in DOMAIN in_tables \ failed : OutputComplete(stem)
    /\ (tool = "optimizer" /\ pc = "exit") => (attempted = <<>> /\ failed = {})
    /\ (tool = "optimizer" /\ pc \in {"loop", "read", "sort", "split", "chunks", "single"})
         => ENABLED Next

\* an input failed and an input after it got its complete output
C4_RunWentOnAfterFailure ==
    /\ Ended
    /\ \E i, j \in 1..Len(attempted) :
          /\ i < j
          /\ attempted[i] \in failed
          /\ attempted[j] \notin failed
          /\ Len(in_tables[attempted[j]].rows) > 0
          /\ OutputComplete(attempted[j])

(***************************************************************************)
(* C5.  Malformed invocations are fatal: each tool ends with a non-zero    *)
(* exit status, before it processes a file, when a required argument is    *)
(* missing, when the input path does not exist, and when the directory     *)
(* given holds no .parquet file.                                           *)
(***************************************************************************)
Malformed ==
    \/ ~argv_ok
    \/ fs_kind = "absent"
    \/ fs_kind = "dir" /\ DOMAIN in_tables = {} /\ DOMAIN in_meta = {}

C5_MalformedInvocationFatal ==
    (Malformed /\ pc \in {"done", "exit"}) =>
        /\ exit_code > 0
        /\ attempted = <<>>
        /\ report = NoReport

\* what does hold: a missing argument is fatal for the three tools
C5_MissingArgumentFatal ==
    (~argv_ok /\ pc \in {"done", "exit"}) =>
        /\ exit_code > 0
        /\ attempted = <<>>
        /\ report = NoReport

(***************************************************************************)
(* C8.  Write-failure isolation.  As claimed: a failed write loses that    *)
(* output file alone, every other output file of the batch is written,     *)
(* the remaining chunks of the same input included.  As the code has it:   *)
(* a failed write ends the input being processed, whose earlier chunks     *)
(* stay and whose later chunks are not written; the files of every other   *)
(* input are written, and the process does not end on the failure.         *)
(***************************************************************************)
\* the inputs the optimizer can read, sort and split
Processable(stem) ==
    /\ in_tables[stem].kind = "ok"
    /\ Len(in_tables[stem].rows) > max_rows => max_rows > 0

Written(name) == \E k \in 1..Len(writes) : writes[k].name = name
WriteFailed(stem, name) == [input |-> stem, name |-> name] \in write_errors

C8_WriteFailureIsolatedPerOutputFile ==
    Ended =>
        \A stem \in DOMAIN in_tables :
            Processable(stem) =>
                LET names == ExpectedNames(stem, Len(in_tables[stem].rows))
                IN  \A k \in 1..Len(names) :
                        Written(names[k]) \/ WriteFailed(stem, names[k])

C8_WriteFailureIsolatedPerInput ==
    /\ Ended =>
         \A stem \in DOMAIN in_tables :
            Processable(stem) =>
                LET names == ExpectedNames(stem, Len(in_tables[stem].rows))
                    ws == InputWrites(stem, Len(writes))
                IN  \/ OutputComplete(stem)
                    \/ \E k \in 1..Len(names) :
                          /\ WriteFailed(stem, names[k])
                          /\ Len(ws) = k - 1
                          /\ \A j \in 1..k - 1 : ws[j].name = names[j]
    /\ (tool = "optimizer" /\ write_errors # {}) => pc # "exit"

\* the first chunk of a split input failed and a later input was written
C8_ChunkFailedAndLaterInputWritten ==
    /\ Ended
    /\ \E i, j \in 1..Len(attempted) :
          /\ i < j
          /\ Len(in_tables[attempted[i]].rows) > max_rows
          /\ WriteFailed(attempted[i], ChunkName(attempted[i], 0))
          /\ attempted[j] \notin failed
          /\ OutputComplete(attempted[j])

(***************************************************************************)
(* C9.  Zero-row boundary of the inspector: on a readable file with 0      *)
(* rows and 0 row groups check_parquet_file reports 0 rows and 0 row       *)
(* groups and returns True without entering its except branch.             *)
(***************************************************************************)
C9_ZeroRowInspection ==
    (/\ tool = "inspector" /\ pc = "done"
     /\ target \in DOMAIN in_meta
     /\ in_meta[target].readable
     /\ in_meta[target].groups = <<>>) =>
        /\ report.printed /\ report.num_rows = 0 /\ report.num_row_groups = 0
        /\ report.returned
        /\ ~report.error

\* what does hold there: the two counts are printed as 0
C9_ZeroRowCountsPrinted ==
    (/\ tool = "inspector" /\ pc = "done"
     /\ target \in DOMAIN in_meta
     /\ in_meta[target].readable
     /\ in_meta[target].groups = <<>>) =>
        report.printed /\ report.num_rows = 0 /\ report.num_row_groups = 0

SortedTable(stem) ==
    take(in_tables[stem].rows, sort_indices(in_tables[stem].colType, in_tables[stem].rows))

\* the files of the input are the consecutive slices of at most cap rows
FilesAreSlices(stem) ==
    LET ws == InputWrites(stem, Len(writes))
        t == SortedTable(stem)
        n == Len(t)
    IN  IF n > max_rows
        THEN /\ Len(ws) * max_rows >= n
             /\ (Len(ws) - 1) * max_rows < n
             /\ \A k \in 1..Len(ws) :
                   /\ ws[k].name = ChunkName(stem, k - 1)
                   /\ Len(ws[k].rows) <= max_rows
                   /\ ws[k].rows = SubSeq(t, (k - 1) * max_rows + 1,
                                          (k - 1) * max_rows + Len(ws[k].rows))
        ELSE /\ Len(ws) = 1
             /\ ws[1].name = SingleName(stem)
             /\ ws[1].rows = t

\* the write of this run that the file at name holds
LastWrite(name) ==
    writes[CHOOSE k \in WritesTo(name) : \A j \in WritesTo(name) : j <= k]

RECURSIVE ConcatGroups(_)
ConcatGroups(gs) == IF gs = <<>> THEN <<>> ELSE Head(gs).rows \o ConcatGroups(Tail(gs))

\* the row groups of the file are consecutive slices of its rows, none above the
\* row group size
GroupsAreSlices(name) ==
    LET gs == outdir[name].groups
    IN  /\ ConcatGroups(gs) = LastWrite(name).rows
        /\ \A g \in 1..Len(gs) :
              gs[g].num_rows = Len(gs[g].rows) /\ gs[g].num_rows <= RowGroupSize

WrittenInput(stem) == stem \in DOMAIN in_tables /\ Completed(stem) /\ max_rows > 0

\* C11 as stated: every output file holds a non-empty slice
C11_SizeBounds ==
    /\ \A stem \in DOMAIN in_tables :
          WrittenInput(stem) =>
             /\ FilesAreSlices(stem)
             /\ \A k \in 1..Len(InputWrites(stem, Len(writes))) :
                   Len(InputWrites(stem, Len(writes))[k].rows) > 0
    /\ \A name \in DOMAIN outdir :
          (tool = "optimizer" /\ WritesTo(name) # {}) => GroupsAreSlices(name)

\* C11 for what the code does: the files of an input that has rows are non-empty
\* slices; an input of 0 rows gets one file of 0 rows, which holds one row group
\* of 0 rows
C11_SizeBoundsOfNonEmptyInputs ==
    /\ \A stem \in DOMAIN in_tables :
          WrittenInput(stem) =>
             LET ws == InputWrites(stem, Len(writes))
             IN  /\ FilesAreSlices(stem)
                 /\ Len(in_tables[stem].rows) > 0 =>
                       \A k \in 1..Len(ws) : Len(ws[k].rows) > 0
                 /\ Len(in_tables[stem].rows) = 0 =>
                       /\ Len(ws) = 1 /\ ws[1].rows = <<>>
                       /\ (SingleName(stem) \in DOMAIN outdir
                             /\ LastWrite(SingleName(stem)).input = stem) =>
                              /\ Len(outdir[SingleName(stem)].groups) = 1
                              /\ outdir[SingleName(stem)].groups[1].num_rows = 0
    /\ \A name \in DOMAIN outdir :
          (tool = "optimizer" /\ WritesTo(name) # {}) =>
             /\ GroupsAreSlices(name)
             /\ LastWrite(name).rows # <<>> =>
                   \A g \in 1..Len(outdir[name].groups) : outdir[name].groups[g].num_rows > 0

\* in one run an input of 0 rows got its file and another input was split
C11_EmptyInputAndSplitInputWritten ==
    /\ Ended /\ max_rows > 0
    /\ \E stem \in DOMAIN in_tables :
          Completed(stem) /\ in_tables[stem].kind = "ok" /\ Len(in_tables[stem].rows) = 0
    /\ \E stem \in DOMAIN in_tables :
          Completed(stem) /\ Len(InputWrites(stem, Len(writes))) >= 2

\* a file of more rows than the row group size was written
C11_FileOfSeveralRowGroups ==
    \E name \in DOMAIN outdir :
        tool = "optimizer" /\ WritesTo(name) # {} /\ Len(outdir[name].groups) >= 2

(***************************************************************************)
(* C12.  Output paths are never reused within a batch: over one run of     *)
(* the optimizer no output path is written twice, so no output file of     *)
(* one input or chunk is overwritten by the output of another.             *)
(***************************************************************************)
C12_OutputPathsNeverReused ==
    tool = "optimizer" =>
        \A j, k \in 1..Len(writes) : writes[j].name = writes[k].name => j = k

\* C12 within one input: its own output files have distinct paths
C12_PathsOfOneInputDistinct ==
    tool = "optimizer" =>
        \A j, k \in 1..Len(writes) :
            (writes[j].name = writes[k].name /\ writes[j].input = writes[k].input) => j = k

\* chunk 0 of an input was overwritten by the file of another input
C12_ChunkOverwrittenByOtherInput ==
    /\ tool = "optimizer"
    /\ \E j, k \in 1..Len(writes) :
          /\ j < k
          /\ writes[j].name = writes[k].name
          /\ writes[j].input # writes[k].input
          /\ writes[j].split /\ ~writes[k].split
          /\ writes[j].rows # writes[k].rows

(***************************************************************************)
(* C13.  The query simulation always fetches at least one row group: when  *)
(* at least one examined row group has statistics (min <= max), the        *)
(* lookup value is the min of the statistics-bearing row group at index    *)
(* floor(len/2), and would_download >= 1, would_skip <= len - 1 and        *)
(* would_download + would_skip = len, len being the number of row groups   *)
(* with statistics; with one such row group nothing is skipped.            *)
(***************************************************************************)
\* the examined row groups that have statistics, in file order
StatBearing == SelectSeq(Examined, LAMBDA g : g.is_stats_set)

C13_SimulationFetchesAtLeastOne ==
    (Analysed /\ Len(StatBearing) >= 1) =>
        LET len == Len(StatBearing)
        IN  /\ report.simulated
            /\ report.total_rg = len
            /\ report.test_value = StatBearing[(len \div 2) + 1].min
            /\ report.would_download >= 1
            /\ report.would_skip <= len - 1
            /\ report.would_download + report.would_skip = len
            /\ len = 1 => (report.would_skip = 0 /\ report.class = "poor")

\* several row groups with statistics and one without were examined, and the
\* simulation skipped some and fetched some
C13_SimulatedOverSeveralRowGroups ==
    /\ Analysed
    /\ Len(StatBearing) >= 2
    /\ Len(Examined) > Len(StatBearing)
    /\ report.would_skip >= 1
    /\ report.would_download >= 1

\* one row group with statistics was examined
C13_SimulatedOverOneRowGroup ==
    Analysed /\ Len(StatBearing) = 1 /\ report.would_skip = 0

====
